---- MODULE Spec2Model ----
(***************************************************************************)
(* Model of tIGAr/calculusUtils.py: the CurvilinearTensor value wrapper,   *)
(* the curvilinear differential operators built on it, and the Gauss       *)
(* quadrature table.                                                       *)
(*                                                                         *)
(* Python objects live on a heap: `lists` holds the list objects used as   *)
(* `lowered` flag lists and `tensors` the CurvilinearTensor objects; a     *)
(* reference is the position of the object in its sequence.  A UFL         *)
(* expression is an immutable value recording its rank, its outermost      *)
(* operator and the operands that matter to the index bookkeeping.         *)
(* Python indices are kept 0-based; position i of a Python list is         *)
(* element i+1 of the TLA+ sequence.                                       *)
(***************************************************************************)
EXTENDS Integers, Sequences, FiniteSets, TLC

MaxRank == 2
MaxTensors == 2
MaxRoots == 1
MaxN == 8

Metrics == {"g", "h"}
Lengths == {"L1", "L2", "L3"}
MpiRanks == {"undefined", "zero", "nonzero"}

VARIABLES tensors, lists, last

vars == <<tensors, lists, last>>

None == 0

Min(a, b) == IF a < b THEN a ELSE b

\* Python slice s[a:b] for 0 <= a, 0 <= b (b is clipped to len(s)).
PySlice(s, a, b) ==
    IF a >= Min(b, Len(s)) THEN <<>> ELSE SubSeq(s, a + 1, Min(b, Len(s)))

\* Python slice s[a:].
PySliceFrom(s, a) == PySlice(s, a, Len(s))

(***************************************************************************)
(* UFL expressions (the symbolic engine the module hands its results to).  *)
(***************************************************************************)
rank(e) == e.rank

indices(n) == [k \in 1..n |-> k]

coefficient(r) == [rank |-> r, head |-> "coef", args |-> <<>>]

\* as_tensor(expr, ii): the rank of the result is the number of free indices.
as_tensor(head, args, ii) == [rank |-> Len(ii), head |-> head, args |-> args]

grad(e) == [rank |-> rank(e) + 1, head |-> "grad", args |-> e.args]

\* a + b, a - b on UFL expressions of equal shape: a new expression.
ufl_sum(a, sign, b) ==
    [rank |-> rank(a), head |-> "sum", args |-> Append(a.args, sign)]

\* scalar * a
ufl_scale(a) == [rank |-> rank(a), head |-> "scale", args |-> a.args]

inv(g) == <<"inv", g>>

ident(g) == <<"id", g>>

(***************************************************************************)
(* The heap.                                                               *)
(***************************************************************************)
Heap(ts, ls) == [tensors |-> ts, lists |-> ls]

\* A new list object holding s; ret is its reference.
AllocList(H, s) ==
    [H |-> Heap(H.tensors, Append(H.lists, s)), ret |-> Len(H.lists) + 1]

\* In-place list extension (Python `lst += [...]`).
ListExtend(H, ref, s) ==
    Heap(H.tensors, [H.lists EXCEPT ![ref] = @ \o s])

Flags(H, t) == H.lists[H.tensors[t].lowered]

(***************************************************************************)
(* class CurvilinearTensor                                                 *)
(***************************************************************************)
RECURSIVE DefaultLowered(_, _, _, _)
DefaultLowered(H, ref, i, n) ==
    IF i >= n THEN H
    ELSE DefaultLowered(ListExtend(H, ref, <<TRUE>>), ref, i + 1, n)

\* __init__(self, T, g, lowered): lowered is a list reference or None.
CurvilinearTensor(H, T, g, lowered) ==
    IF lowered # None
    THEN [H |-> Heap(Append(H.tensors, [T |-> T, g |-> g, lowered |-> lowered]),
                     H.lists),
          ret |-> Len(H.tensors) + 1]
    ELSE LET A == AllocList(H, <<>>)
             F == DefaultLowered(A.H, A.ret, 0, rank(T))
         IN [H |-> Heap(Append(F.tensors, [T |-> T, g |-> g, lowered |-> A.ret]),
                        F.lists),
             ret |-> Len(H.tensors) + 1]

__add__(H, self, other) ==
    LET s == H.tensors[self]
    IN CurvilinearTensor(H, ufl_sum(s.T, "+", H.tensors[other].T), s.g, s.lowered)

__sub__(H, self, other) ==
    LET s == H.tensors[self]
    IN CurvilinearTensor(H, ufl_sum(s.T, "-", H.tensors[other].T), s.g, s.lowered)

__rmul__(H, self) ==
    LET s == H.tensors[self]
    IN CurvilinearTensor(H, ufl_scale(s.T), s.g, s.lowered)

raiseLowerIndex_keep(H, self, i) ==
    LET s == H.tensors[self]
        n == rank(s.T)
        ii == indices(n + 1)
        low == H.lists[s.lowered]
        mat == IF low[i + 1] THEN inv(s.g) ELSE ident(s.g)
        retval == as_tensor("contract", mat,
                            PySlice(ii, 0, i) \o <<ii[n + 1]>> \o PySlice(ii, i + 1, n))
        A == AllocList(H, PySlice(low, 0, i) \o <<~low[i + 1]>> \o PySliceFrom(low, i))
    IN CurvilinearTensor(A.H, retval, s.g, A.ret)

raiseLowerIndex(H, self, i) ==
    LET s == H.tensors[self]
        n == rank(s.T)
        ii == indices(n + 1)
        low == H.lists[s.lowered]
        mat == IF low[i + 1] THEN inv(s.g) ELSE ident(s.g)
        retval == as_tensor("contract", mat,
                            PySlice(ii, 0, i) \o <<ii[n + 1]>> \o PySlice(ii, i + 1, n))
        A == AllocList(H, PySlice(low, 0, i) \o <<~low[i + 1]>> \o PySliceFrom(low, i + 1))
    IN CurvilinearTensor(A.H, retval, s.g, A.ret)

raiseIndex(H, self, i) ==
    IF Flags(H, self)[i + 1] THEN raiseLowerIndex(H, self, i)
    ELSE [H |-> H, ret |-> self]

lowerIndex(H, self, i) ==
    IF ~Flags(H, self)[i + 1] THEN raiseLowerIndex(H, self, i)
    ELSE [H |-> H, ret |-> self]

RECURSIVE sharpLoop(_, _, _, _)
sharpLoop(H, retval, i, n) ==
    IF i >= n THEN [H |-> H, ret |-> retval]
    ELSE LET r == raiseIndex(H, retval, i) IN sharpLoop(r.H, r.ret, i + 1, n)

sharp_short(H, self) == sharpLoop(H, self, 1, rank(H.tensors[self].T))

sharp(H, self) == sharpLoop(H, self, 0, rank(H.tensors[self].T))

RECURSIVE flatLoop(_, _, _, _)
flatLoop(H, retval, i, n) ==
    IF i >= n THEN [H |-> H, ret |-> retval]
    ELSE LET r == lowerIndex(H, retval, i) IN flatLoop(r.H, r.ret, i + 1, n)

flat_short(H, self) == flatLoop(H, self, 0, rank(H.tensors[self].T) - 1)

flat(H, self) == flatLoop(H, self, 0, rank(H.tensors[self].T))

(***************************************************************************)
(* Module-level functions on CurvilinearTensor objects                     *)
(***************************************************************************)
getChristoffel(g) == [rank |-> 3, head |-> "christoffel", args |-> <<g>>]

curvilinearInner(H, T, S) ==
    LET Tsharp == sharp(H, T)
        Sflat == flat(Tsharp.H, S)
        ii == indices(rank(H.tensors[T].T))
    IN [H |-> Sflat.H, ret |-> None,
        ufl |-> as_tensor("inner", <<>>, PySlice(ii, 0, 0)),
        Tsharp |-> Tsharp.ret, Sflat |-> Sflat.ret]

\* The loop of covariantDerivative: one Christoffel term per index of T,
\* subtracted for a lowered index and added for a raised one.
RECURSIVE covariantLoop(_, _, _, _, _)
covariantLoop(low, ii, i, n, retval) ==
    IF i >= n THEN retval
    ELSE covariantLoop(low, ii, i + 1, n,
            ufl_sum(retval, IF low[i + 1] THEN "-" ELSE "+",
                    as_tensor("gamma", <<>>, PySlice(ii, 0, n + 1))))

covariantDerivative_inplace(H, T) ==
    LET t == H.tensors[T]
        n == rank(t.T)
        ii == indices(n + 2)
        retval == covariantLoop(H.lists[t.lowered], ii, 0, n, grad(t.T))
    IN CurvilinearTensor(ListExtend(H, t.lowered, <<TRUE>>), retval, t.g, t.lowered)

covariantDerivative(H, T) ==
    LET t == H.tensors[T]
        n == rank(t.T)
        ii == indices(n + 2)
        g == t.g
        gamma == getChristoffel(g)
        retval == covariantLoop(H.lists[t.lowered], ii, 0, n, grad(t.T))
        newLowered == AllocList(H, H.lists[t.lowered] \o <<TRUE>>)
    IN CurvilinearTensor(newLowered.H, retval, g, newLowered.ret)

curvilinearGrad_lowered(H, T) ==
    LET t == H.tensors[T]
        n == rank(t.T)
        ii == indices(n + 2)
        deriv == covariantDerivative(H, T)
        retval == as_tensor("contract", inv(t.g),
                            PySlice(ii, 0, n) \o <<ii[n + 2]>>)
        A == AllocList(deriv.H, H.lists[t.lowered] \o <<TRUE>>)
    IN CurvilinearTensor(A.H, retval, t.g, A.ret)

curvilinearGrad(H, T) ==
    LET t == H.tensors[T]
        n == rank(t.T)
        ii == indices(n + 2)
        g == t.g
        deriv == covariantDerivative(H, T)
        invg == inv(g)
        retval == as_tensor("contract", invg,
                            PySlice(ii, 0, n) \o <<ii[n + 2]>>)
        A == AllocList(deriv.H, H.lists[t.lowered] \o <<FALSE>>)
    IN CurvilinearTensor(A.H, retval, g, A.ret)

\* The search loop of curvilinearDiv: j ends as the last raised index, or -1.
RECURSIVE lastRaisedLoop(_, _, _, _)
lastRaisedLoop(low, i, n, j) ==
    IF i >= n THEN j
    ELSE lastRaisedLoop(low, i + 1, n, IF ~low[i + 1] THEN i ELSE j)

RECURSIVE firstRaisedLoop(_, _, _, _)
firstRaisedLoop(low, i, n, j) ==
    IF i >= n THEN j
    ELSE firstRaisedLoop(low, i + 1, n, IF ~low[i + 1] /\ j = -1 THEN i ELSE j)

lastRaised_first(low, n) == firstRaisedLoop(low, 0, n, -1)

lastRaised_from0(low, n) == lastRaisedLoop(low, 0, n, 0)

lastRaised(low, n) == lastRaisedLoop(low, 0, n, -1)

curvilinearDiv_keepj(H, T) ==
    LET t == H.tensors[T]
        n == rank(t.T)
        ii == indices(n)
        low == H.lists[t.lowered]
        j == lastRaised(low, n)
    IN IF j = -1
       THEN [H |-> H, ret |-> None, outcome |-> "exit"]
       ELSE LET deriv == covariantDerivative(H, T)
                retval == as_tensor("trace", <<j>>,
                                    PySlice(ii, 0, j) \o PySlice(ii, j + 1, n))
                A == AllocList(deriv.H, PySlice(low, 0, j) \o PySlice(low, j, n))
                R == CurvilinearTensor(A.H, retval, t.g, A.ret)
            IN [H |-> R.H, ret |-> R.ret, outcome |-> "return"]

curvilinearDiv(H, T) ==
    LET t == H.tensors[T]
        n == rank(t.T)
        ii == indices(n)
        g == t.g
        low == H.lists[t.lowered]
        j == lastRaised(low, n)
    IN IF j = -1
       THEN [H |-> H, ret |-> None, outcome |-> "exit"]
       ELSE LET deriv == covariantDerivative(H, T)
                retval == as_tensor("trace", <<j>>,
                                    PySlice(ii, 0, j) \o PySlice(ii, j + 1, n))
                A == AllocList(deriv.H, PySlice(low, 0, j) \o PySlice(low, j + 1, n))
                R == CurvilinearTensor(A.H, retval, g, A.ret)
            IN [H |-> R.H, ret |-> R.ret, outcome |-> "return"]

(***************************************************************************)
(* Gauss quadrature on (-1,1)                                              *)
(***************************************************************************)
\* Lines 352-354: reached when no branch returned.  mpirank is not defined
\* in this module; the name resolves only if the star import provides it.
quadErrorPath(mp) ==
    [outcome |-> CASE mp = "undefined" -> "NameError"
                   [] mp = "zero" -> "exit"
                   [] OTHER -> "None",
     xi |-> <<>>, w |-> <<>>]

getQuadRule(n, mp) ==
    IF n = 1
    THEN [outcome |-> "return", xi |-> <<"0.0">>, w |-> <<"2.0">>]
    ELSE IF n = 2
    THEN [outcome |-> "return",
          xi |-> <<"-0.5773502691896257645091488",
                   "0.5773502691896257645091488">>,
          w |-> <<"1.0", "1.0">>]
    ELSE IF n = 3
    THEN [outcome |-> "return",
          xi |-> <<"-0.77459666924148337703585308", "0.0",
                   "0.77459666924148337703585308">>,
          w |-> <<"0.55555555555555555555555556",
                  "0.88888888888888888888888889",
                  "0.55555555555555555555555556">>]
    ELSE IF n = 4
    THEN LET xi == <<"-0.86113631159405257524", "-0.33998104358485626481",
                     "0.33998104358485626481", "0.86113631159405257524">>
             w == <<"0.34785484513745385736", "0.65214515486254614264",
                    "0.65214515486254614264", "0.34785484513745385736">>
         IN quadErrorPath(mp)
    ELSE quadErrorPath(mp)

\* L*x/2.0 as a symbolic product
scaled(L, x) == <<L, x, "/2.0">>

getQuadRuleInterval(n, L, mp) ==
    LET r == getQuadRule(n, mp)
    IN IF r.outcome = "None"
       THEN [outcome |-> "TypeError", xi |-> <<>>, w |-> <<>>]
       ELSE IF r.outcome # "return"
       THEN r
       ELSE [outcome |-> "return",
             xi |-> [i \in 1..n |-> scaled(L, r.xi[i])],
             w |-> [i \in 1..n |-> scaled(L, r.w[i])]]

(***************************************************************************)
(* State machine: a client that builds tensors and calls the operations.   *)
(* `last` records the latest call: its arguments, a snapshot of the        *)
(* receiver taken at the call, and what the call produced.                 *)
(***************************************************************************)
NoExpr == [rank |-> -1, head |-> "none", args |-> <<>>]

NoCall ==
    [op |-> "init", self |-> None, other |-> None, i |-> -1,
     L |-> "none", mpirank |-> "none",
     rank |-> -1, g |-> "none", low |-> <<>>, count |-> 0,
     ret |-> None, outcome |-> "none", ufl |-> NoExpr,
     n |-> 0, xi |-> <<>>, w |-> <<>>]

Refs == 1..Len(tensors)

TheHeap == Heap(tensors, lists)

\* What the client can still reach after a call on heap H0 returned R: the
\* objects of H0 and the returned tensor with its flag list.  The tensors a
\* call builds on the way (in sharp, flat, curvilinearGrad, curvilinearDiv)
\* are unreferenced when it returns.
Reachable(H0, R) ==
    LET nt == Len(H0.tensors)
        nl == Len(H0.lists)
        oldT == SubSeq(R.H.tensors, 1, nt)
        oldL == SubSeq(R.H.lists, 1, nl)
    IN IF R.ret = None \/ R.ret <= nt
       THEN [H |-> Heap(oldT, oldL), ret |-> R.ret]
       ELSE LET r == R.H.tensors[R.ret]
            IN IF r.lowered <= nl
               THEN [H |-> Heap(Append(oldT, r), oldL), ret |-> nt + 1]
               ELSE [H |-> Heap(Append(oldT, [r EXCEPT !.lowered = nl + 1]),
                                Append(oldL, R.H.lists[r.lowered])),
                     ret |-> nt + 1]

\* The call op(self, ...) ran to its end on the heap R.H with result R.ret.
Called(op, self, other, i, R, outcome, ufl) ==
    LET K == Reachable(TheHeap, R)
    IN /\ Len(K.H.tensors) <= MaxTensors
       /\ tensors' = K.H.tensors
       /\ lists' = K.H.lists
       /\ last' = [NoCall EXCEPT !.op = op, !.self = self, !.other = other, !.i = i,
                                 !.rank = rank(tensors[self].T),
                                 !.g = tensors[self].g,
                                 !.low = Flags(TheHeap, self),
                                 !.count = Len(tensors),
                                 !.ret = K.ret, !.outcome = outcome, !.ufl = ufl]

\* The tensors built directly by the client
Roots == {t \in Refs : tensors[t].T.head = "coef"}

Init ==
    /\ tensors = <<>>
    /\ lists = <<>>
    /\ last = NoCall

\* The metrics a new tensor may be given.  Metric names are interchangeable,
\* so the first tensor is given "g"; later ones take either metric.
NewMetrics == IF tensors = <<>> THEN {"g"} ELSE Metrics

\* CurvilinearTensor(T, g)
NewDefault ==
    \E r \in 0..MaxRank, g \in NewMetrics :
        LET R == CurvilinearTensor(TheHeap, coefficient(r), g, None)
        IN /\ Cardinality(Roots) < MaxRoots
           /\ Len(R.H.tensors) <= MaxTensors
           /\ tensors' = R.H.tensors
           /\ lists' = R.H.lists
           /\ last' = [NoCall EXCEPT !.op = "new", !.ret = R.ret,
                                     !.outcome = "return", !.count = Len(tensors)]

\* CurvilinearTensor(T, g, lowered) with one flag per index of T
NewExplicit ==
    \E r \in 0..MaxRank, g \in NewMetrics :
        \E low \in [1..r -> BOOLEAN] :
            LET A == AllocList(TheHeap, low)
                R == CurvilinearTensor(A.H, coefficient(r), g, A.ret)
            IN /\ Cardinality(Roots) < MaxRoots
               /\ Len(R.H.tensors) <= MaxTensors
               /\ tensors' = R.H.tensors
               /\ lists' = R.H.lists
               /\ last' = [NoCall EXCEPT !.op = "new", !.ret = R.ret,
                                         !.outcome = "return", !.count = Len(tensors)]

\* self + other; UFL accepts the sum only for operands of equal shape
Add ==
    \E self \in Refs, other \in Refs :
        /\ rank(tensors[self].T) = rank(tensors[other].T)
        /\ LET R == __add__(TheHeap, self, other)
           IN Called("__add__", self, other, -1, R, "return", NoExpr)

Sub ==
    \E self \in Refs, other \in Refs :
        /\ rank(tensors[self].T) = rank(tensors[other].T)
        /\ LET R == __sub__(TheHeap, self, other)
           IN Called("__sub__", self, other, -1, R, "return", NoExpr)

RMul ==
    \E self \in Refs :
        LET R == __rmul__(TheHeap, self)
        IN Called("__rmul__", self, None, -1, R, "return", NoExpr)

RaiseLowerIndex ==
    \E self \in Refs :
        \E i \in 0..(rank(tensors[self].T) - 1) :
            LET R == raiseLowerIndex(TheHeap, self, i)
            IN Called("raiseLowerIndex", self, None, i, R, "return", NoExpr)

RaiseIndex ==
    \E self \in Refs :
        \E i \in 0..(rank(tensors[self].T) - 1) :
            LET R == raiseIndex(TheHeap, self, i)
            IN Called("raiseIndex", self, None, i, R, "return", NoExpr)

LowerIndex ==
    \E self \in Refs :
        \E i \in 0..(rank(tensors[self].T) - 1) :
            LET R == lowerIndex(TheHeap, self, i)
            IN Called("lowerIndex", self, None, i, R, "return", NoExpr)

Sharp ==
    \E self \in Refs :
        LET R == sharp(TheHeap, self)
        IN Called("sharp", self, None, -1, R, "return", NoExpr)

Flat ==
    \E self \in Refs :
        LET R == flat(TheHeap, self)
        IN Called("flat", self, None, -1, R, "return", NoExpr)

\* curvilinearInner(T, S); UFL accepts the contraction only for equal ranks
CurvilinearInner ==
    \E T \in Refs, S \in Refs :
        /\ rank(tensors[T].T) = rank(tensors[S].T)
        /\ LET R == curvilinearInner(TheHeap, T, S)
           IN Called("curvilinearInner", T, S, -1, R, "return", R.ufl)

CovariantDerivative ==
    \E T \in Refs :
        /\ rank(tensors[T].T) < MaxRank
        /\ LET R == covariantDerivative(TheHeap, T)
           IN Called("covariantDerivative", T, None, -1, R, "return", NoExpr)

CurvilinearGrad ==
    \E T \in Refs :
        /\ rank(tensors[T].T) < MaxRank
        /\ LET R == curvilinearGrad(TheHeap, T)
           IN Called("curvilinearGrad", T, None, -1, R, "return", NoExpr)

CurvilinearDiv ==
    \E T \in Refs :
        LET R == curvilinearDiv(TheHeap, T)
        IN Called("curvilinearDiv", T, None, -1, R, R.outcome, NoExpr)

GetQuadRule ==
    \E n \in 0..MaxN, mp \in MpiRanks :
        LET r == getQuadRule(n, mp)
        IN /\ last' = [NoCall EXCEPT !.op = "getQuadRule", !.n = n,
                                     !.mpirank = mp,
                                     !.outcome = r.outcome,
                                     !.xi = r.xi, !.w = r.w,
                                     !.count = Len(tensors)]
           /\ UNCHANGED <<tensors, lists>>

GetQuadRuleInterval ==
    \E n \in 0..MaxN, L \in Lengths, mp \in MpiRanks :
        LET r == getQuadRuleInterval(n, L, mp)
        IN /\ last' = [NoCall EXCEPT !.op = "getQuadRuleInterval", !.n = n,
                                     !.L = L, !.mpirank = mp,
                                     !.outcome = r.outcome,
                                     !.xi = r.xi, !.w = r.w,
                                     !.count = Len(tensors)]
           /\ UNCHANGED <<tensors, lists>>

Next ==
    \/ NewDefault
    \/ NewExplicit
    \/ Add
    \/ Sub
    \/ RMul
    \/ RaiseLowerIndex
    \/ RaiseIndex
    \/ LowerIndex
    \/ Sharp
    \/ Flat
    \/ CurvilinearInner
    \/ CovariantDerivative
    \/ CurvilinearGrad
    \/ CurvilinearDiv

Spec == Init /\ [][Next]_vars

\* The quadrature functions neither read nor write a tensor: their calls
\* are explored on their own.
NextQuad ==
    \/ GetQuadRule
    \/ GetQuadRuleInterval

SpecQuad == Init /\ [][NextQuad]_vars

TypeOK ==
    /\ Len(tensors) <= MaxTensors
    /\ \A t \in Refs : tensors[t].lowered \in 1..Len(lists)

(***************************************************************************)
(* Properties                                                              *)
(***************************************************************************)
\* The tensor object returned by the latest call
Result == tensors[last.ret]

ResultFlags == lists[Result.lowered]

AllLowered(low) == \A k \in 1..Len(low) : low[k]

\* C1: getQuadRule(n) returns, for every n in {1,2,3,4}, a pair of lists of
\* exactly n points and n weights; it never ends in the error path or
\* returns nothing for these n.
C1_QuadRuleReturnsPair ==
    (last.op = "getQuadRule" /\ last.n \in 1..4)
        => /\ last.outcome = "return"
           /\ Len(last.xi) = last.n
           /\ Len(last.w) = last.n

\* C2: sharp() returns a tensor of the receiver's rank and metric in which
\* every one of the n flags is False (all indices raised).
C2_SharpRaisesAll ==
    last.op = "sharp"
        => /\ last.outcome = "return"
           /\ rank(Result.T) = last.rank
           /\ Result.g = last.g
           /\ Len(ResultFlags) = last.rank
           /\ \A k \in 1..last.rank : ResultFlags[k] = FALSE

C2_Witness ==
    /\ last.op = "sharp"
    /\ last.low = <<TRUE, FALSE>>
    /\ last.ret # last.self

\* C3: flat() returns a tensor of the receiver's rank and metric in which
\* every one of the n flags is True (all indices lowered).
C3_FlatLowersAll ==
    last.op = "flat"
        => /\ last.outcome = "return"
           /\ rank(Result.T) = last.rank
           /\ Result.g = last.g
           /\ Len(ResultFlags) = last.rank
           /\ \A k \in 1..last.rank : ResultFlags[k] = TRUE

C3_Witness ==
    /\ last.op = "flat"
    /\ last.low = <<TRUE, FALSE>>
    /\ last.ret # last.self

\* C4: curvilinearDiv(T) takes the error path (report and exit, no
\* covariant derivative computed, no tensor returned) exactly when every
\* flag of T is True, rank 0 included.
C4_DivNeedsRaisedIndex ==
    last.op = "curvilinearDiv"
        => /\ (last.outcome = "exit") <=> AllLowered(last.low)
           /\ last.outcome \in {"exit", "return"}
           /\ last.outcome = "exit"
                => (last.ret = None /\ Len(tensors) = last.count)
           /\ last.outcome = "return" => last.ret > last.count

C4_Witness ==
    /\ last.op = "curvilinearDiv"
    /\ last.outcome = "exit"
    /\ last.low = <<TRUE, TRUE>>

\* C5: raiseLowerIndex(i) flips flag i and no other flag, keeps the rank
\* and the metric, and contracts index i with inv(g) when it was lowered
\* and with g when it was raised.
C5_RaiseLowerFlipsOnlyI ==
    last.op = "raiseLowerIndex"
        => /\ rank(Result.T) = last.rank
           /\ Result.g = last.g
           /\ Len(ResultFlags) = last.rank
           /\ ResultFlags[last.i + 1] = ~last.low[last.i + 1]
           /\ \A k \in 1..last.rank :
                  k # last.i + 1 => ResultFlags[k] = last.low[k]
           /\ Result.T.head = "contract"
           /\ Result.T.args = IF last.low[last.i + 1]
                              THEN <<"inv", last.g>> ELSE <<"id", last.g>>

C5_Witness ==
    /\ last.op = "raiseLowerIndex"
    /\ last.rank = 2
    /\ last.i = 0
    /\ last.low = <<FALSE, TRUE>>

\* C6: curvilinearGrad(T) has the rank (n+1), metric and flags of
\* covariantDerivative(T).raiseIndex(n): the flags of T followed by False,
\* where covariantDerivative(T) has the flags of T followed by True.
C6_GradIsRaisedDerivative ==
    last.op = "curvilinearGrad"
        => LET D == covariantDerivative(TheHeap, last.self)
               R == raiseIndex(D.H, D.ret, last.rank)
               d == D.H.tensors[D.ret]
               x == R.H.tensors[R.ret]
           IN /\ rank(Result.T) = last.rank + 1
              /\ rank(x.T) = rank(Result.T)
              /\ x.g = Result.g
              /\ Result.g = last.g
              /\ R.H.lists[x.lowered] = ResultFlags
              /\ ResultFlags = last.low \o <<FALSE>>
              /\ rank(d.T) = last.rank + 1
              /\ D.H.lists[d.lowered] = last.low \o <<TRUE>>

C6_Witness ==
    /\ last.op = "curvilinearGrad"
    /\ last.low = <<FALSE>>

\* C7: curvilinearDiv(T) on a tensor with a raised index contracts the
\* derivative index with the last raised index j: the result has rank n-1
\* and the flags of T with position j removed, in the same order.
C7_DivContractsLastRaised ==
    (last.op = "curvilinearDiv" /\ ~AllLowered(last.low))
        => LET n == last.rank
               j == CHOOSE k \in 1..n :
                        ~last.low[k] /\ \A m \in (k + 1)..n : last.low[m]
           IN /\ last.outcome = "return"
              /\ rank(Result.T) = n - 1
              /\ Result.g = last.g
              /\ Result.T.head = "trace"
              /\ Result.T.args = <<j - 1>>
              /\ ResultFlags = SubSeq(last.low, 1, j - 1) \o SubSeq(last.low, j + 1, n)

C7_Witness ==
    /\ last.op = "curvilinearDiv"
    /\ last.low = <<FALSE, TRUE>>
    /\ ResultFlags = <<TRUE>>

\* C8: no operation changes a tensor it is given: across every call the
\* components, the metric and the flags of each existing tensor stay as
\* they were, also when a result shares the flag list of an operand.
C8_OperandsUnchanged ==
    [][\A t \in Refs :
          /\ t <= Len(tensors')
          /\ tensors'[t] = tensors[t]
          /\ lists'[tensors[t].lowered] = lists[tensors[t].lowered]]_vars

C8_Witness ==
    /\ last.op = "raiseIndex"
    /\ last.ret = last.self
    /\ last.low = <<TRUE, FALSE>>
    /\ \E t \in Refs : t # last.self /\ tensors[t].lowered = tensors[last.self].lowered

\* C9: every tensor has exactly one flag per index: len(lowered) = rank(T).
C9_OneFlagPerIndex ==
    \A t \in Refs : Len(lists[tensors[t].lowered]) = rank(tensors[t].T)

C9_Witness ==
    /\ last.op = "curvilinearDiv"
    /\ last.outcome = "return"
    /\ last.rank = 2
    /\ Len(tensors) = MaxTensors

====
